---- MODULE Spec2Model ----
(***************************************************************************)
(* A model of the profile store, the availability evaluation and the       *)
(* ready-player search of hourglass-bot (src/state.py).                    *)
(*                                                                         *)
(* Representation.                                                         *)
(*   - A Python str is a sequence of one-character strings, so that        *)
(*     normalisation, formatting and lexicographic comparison are          *)
(*     computed character by character.  Timezone names are the only       *)
(*     strings kept atomic: the code never looks inside them.              *)
(*   - An optional value (T | None) is <<>> for None and <<v>> for v.      *)
(*   - state["users"] is a dict: a sequence of entries in insertion order, *)
(*     each entry holding its key (str(user_id)) and the user's record.    *)
(*   - The state file is None while it does not exist, else the document   *)
(*     last written: the users in the order json.dump writes them.         *)
(*   - last is the request handled last, with what it returned.            *)
(*   - tasks are the command handlers the event loop has been given, each  *)
(*     with its position: not yet run, suspended at its await, finished.   *)
(*   - An instant is the number of minutes since Monday 00:00 UTC, taken   *)
(*     modulo one week.  A timezone is a fixed offset from UTC.            *)
(***************************************************************************)
EXTENDS Integers, Sequences, FiniteSets, TLC

VARIABLES users, file, last, tasks

vars == <<users, file, last, tasks>>

----------------------------------------------------------------------------
(* Bounds of the model. *)

\* The game commands are issued by the users 1 .. MaxUid.
MaxUid == 2

\* At most MaxTasks command handlers are dispatched to the event loop.
MaxTasks == 3

\* Availability is set on the first MaxDay weekdays.
MaxDay == 2

----------------------------------------------------------------------------
(* Optional values. *)

None == <<>>

Some(v) == <<v>>

\* Python truthiness of a str | None: None and "" are falsy.
Truthy(opt) == opt # None /\ opt[1] # <<>>

----------------------------------------------------------------------------
(* Strings. *)

\* str(user_id) for a non-negative int: its decimal digits.
DigitChars == <<"0", "1", "2", "3", "4", "5", "6", "7", "8", "9">>

RECURSIVE StrOfInt(_)
StrOfInt(n) ==
    IF n < 10 THEN <<DigitChars[n + 1]>>
    ELSE StrOfInt(n \div 10) \o <<DigitChars[(n % 10) + 1]>>

DigitValue(c) == CHOOSE d \in 0 .. 9 : DigitChars[d + 1] = c

\* int(user_key)
RECURSIVE IntOfStr(_)
IntOfStr(s) ==
    IF Len(s) = 0 THEN 0
    ELSE 10 * IntOfStr(SubSeq(s, 1, Len(s) - 1)) + DigitValue(s[Len(s)])

\* The characters str.split() treats as separators.
Whitespace == {" ", "\t", "\n"}

\* str.lower() on one character, for the letters the model's names use.
UpperChars == <<"A", "B", "C", "G", "H", "O">>

LowerChars == <<"a", "b", "c", "g", "h", "o">>

LowerChar(c) ==
    IF \E i \in 1 .. Len(UpperChars) : UpperChars[i] = c
    THEN LowerChars[CHOOSE i \in 1 .. Len(UpperChars) : UpperChars[i] = c]
    ELSE c

IsNotWhitespace(c) == c \notin Whitespace

LowerAll(s) == [i \in 1 .. Len(s) |-> LowerChar(s[i])]

\* "".join(name.split()).lower()
normalize_game_name(name) == LowerAll(SelectSeq(name, IsNotWhitespace))

----------------------------------------------------------------------------
(* The users dict. *)

DAY_KEYS == <<"mon", "tue", "wed", "thu", "fri", "sat", "sun">>

DaySet == {DAY_KEYS[i] : i \in 1 .. Len(DAY_KEYS)}

_empty_availability == [d \in DaySet |-> <<>>]

\* Position of user_key in the dict, 0 when absent ("user_key not in users").
KeyIndex(us, key) ==
    IF \E i \in 1 .. Len(us) : us[i].key = key
    THEN CHOOSE i \in 1 .. Len(us) : us[i].key = key
    ELSE 0

HasKey(us, key) == KeyIndex(us, key) # 0

\* users[user_key]
Lookup(us, key) == us[KeyIndex(us, key)]

\* users[user_key] = rec: a new key goes last, an existing key keeps its place.
Store(us, key, rec) ==
    IF HasKey(us, key)
    THEN [us EXCEPT ![KeyIndex(us, key)] = rec]
    ELSE Append(us, rec)

\* The record {"games": []}: no "timezone" and no "availability" entry.
NewUser(key) ==
    [key |-> key, games |-> <<>>, timezone |-> None, availability |-> None]

----------------------------------------------------------------------------
(* Games. *)

\* Index of the first entry of games whose normalised form is norm, else 0.
FirstNormalizedMatch(games, norm) ==
    IF \E i \in 1 .. Len(games) : normalize_game_name(games[i]) = norm
    THEN CHOOSE i \in 1 .. Len(games) :
            /\ normalize_game_name(games[i]) = norm
            /\ \A j \in 1 .. (i - 1) : normalize_game_name(games[j]) # norm
    ELSE 0

\* Index of the first entry of games equal to game: what list.remove deletes.
FirstEqual(games, game) ==
    CHOOSE i \in 1 .. Len(games) :
        /\ games[i] = game
        /\ \A j \in 1 .. (i - 1) : games[j] # game

RemoveAt(s, i) == SubSeq(s, 1, i - 1) \o SubSeq(s, i + 1, Len(s))

\* add_game_to_state comparing the stored names literally, not normalised.
AddGameToList_literal(games, game_name) ==
    IF \E i \in 1 .. Len(games) : games[i] = game_name
    THEN games
    ELSE Append(games, game_name)

\* The for/else of add_game_to_state on the games list.
AddGameToList(games, game_name) ==
    LET idx == FirstNormalizedMatch(games, normalize_game_name(game_name))
    IN  IF idx # 0
        THEN [games EXCEPT ![idx] = game_name]
        ELSE Append(games, game_name)

\* add_game_to_state moving the matching entry to the end of the list.
add_game_to_state_moving(us, user_id, game_name) ==
    LET user_key == StrOfInt(user_id)
        us1 == IF HasKey(us, user_key) THEN us
               ELSE Store(us, user_key, NewUser(user_key))
        user == Lookup(us1, user_key)
        idx == FirstNormalizedMatch(user.games, normalize_game_name(game_name))
        kept == IF idx = 0 THEN user.games ELSE RemoveAt(user.games, idx)
    IN  Store(us1, user_key, [user EXCEPT !.games = Append(kept, game_name)])

add_game_to_state(us, user_id, game_name) ==
    LET user_key == StrOfInt(user_id)
        us1 == IF HasKey(us, user_key) THEN us
               ELSE Store(us, user_key, NewUser(user_key))
        user == Lookup(us1, user_key)
    IN  Store(us1, user_key,
              [user EXCEPT !.games = AddGameToList(user.games, game_name)])

\* remove_game_from_state deleting the entry spelled as the query.
RemoveGameFromList_literal(games, game_name) ==
    IF \E i \in 1 .. Len(games) : games[i] = game_name
    THEN RemoveAt(games, FirstEqual(games, game_name))
    ELSE games

\* The loop of remove_game_from_state: the first normalised match is found,
\* and games.remove deletes the first entry equal to it.
RemoveGameFromList(games, game_name) ==
    LET idx == FirstNormalizedMatch(games, normalize_game_name(game_name))
    IN  IF idx = 0 THEN games
        ELSE RemoveAt(games, FirstEqual(games, games[idx]))

\* The result pair of remove_game_from_state: the store and the returned bool.
\* remove_game_from_state dropping the user whose last game was removed.
remove_game_from_state_pruning(us, user_id, game_name) ==
    LET user_key == StrOfInt(user_id)
    IN  IF ~HasKey(us, user_key) THEN [users |-> us, ret |-> FALSE]
        ELSE
          LET user == Lookup(us, user_key)
              games == user.games
              left == RemoveGameFromList(games, game_name)
          IN  IF FirstNormalizedMatch(games, normalize_game_name(game_name)) = 0
              THEN [users |-> us, ret |-> FALSE]
              ELSE [users |-> IF left = <<>>
                              THEN RemoveAt(us, KeyIndex(us, user_key))
                              ELSE Store(us, user_key,
                                         [user EXCEPT !.games = left]),
                    ret |-> TRUE]

remove_game_from_state(us, user_id, game_name) ==
    LET user_key == StrOfInt(user_id)
    IN  IF ~HasKey(us, user_key) THEN [users |-> us, ret |-> FALSE]
        ELSE
          LET user == Lookup(us, user_key)
              games == user.games
          IN  IF Len(games) = 0 THEN [users |-> us, ret |-> FALSE]
              ELSE IF FirstNormalizedMatch(games, normalize_game_name(game_name)) = 0
                   THEN [users |-> us, ret |-> FALSE]
                   ELSE [users |-> Store(us, user_key,
                                    [user EXCEPT !.games =
                                        RemoveGameFromList(games, game_name)]),
                         ret |-> TRUE]

list_games_from_state(us, user_id) ==
    LET user_key == StrOfInt(user_id)
    IN  IF ~HasKey(us, user_key) THEN <<>>
        ELSE Lookup(us, user_key).games

\* get_common_games collecting the names from the second user's list.
get_common_games_of_b(us, user_id_a, user_id_b) ==
    LET games_a == list_games_from_state(us, user_id_a)
        games_b == list_games_from_state(us, user_id_b)
        normalized_a == {normalize_game_name(games_a[i]) : i \in 1 .. Len(games_a)}
        InA(name_b) == normalize_game_name(name_b) \in normalized_a
    IN  SelectSeq(games_b, InA)

get_common_games(us, user_id_a, user_id_b) ==
    LET games_a == list_games_from_state(us, user_id_a)
        games_b == list_games_from_state(us, user_id_b)
        normalized_b == {normalize_game_name(games_b[i]) : i \in 1 .. Len(games_b)}
        InB(name_a) == normalize_game_name(name_a) \in normalized_b
    IN  SelectSeq(games_a, InB)

----------------------------------------------------------------------------
(* Timezone. *)

set_timezone_in_state(us, user_id, tz) ==
    LET user_key == StrOfInt(user_id)
    IN  IF ~HasKey(us, user_key)
        THEN Store(us, user_key, [NewUser(user_key) EXCEPT !.timezone = Some(tz)])
        ELSE Store(us, user_key,
                   [Lookup(us, user_key) EXCEPT !.timezone = Some(tz)])

\* None, or Some(tz) for a stored non-empty string.
get_timezone_from_state(us, user_id) ==
    LET user_key == StrOfInt(user_id)
    IN  IF ~HasKey(us, user_key) THEN None
        ELSE
          LET tz == Lookup(us, user_key).timezone
          IN  IF tz # None /\ tz[1] # "" THEN tz ELSE None

----------------------------------------------------------------------------
(* Availability. *)

\* set_day_availability_in_state adding the interval to the day's list.
set_day_availability_in_state_adding(us, user_id, day, start, end) ==
    LET user_key == StrOfInt(user_id)
        us1 == IF HasKey(us, user_key) THEN us
               ELSE Store(us, user_key,
                          [NewUser(user_key) EXCEPT
                              !.availability = Some(_empty_availability)])
        user == Lookup(us1, user_key)
        avail0 == IF user.availability = None
                  THEN _empty_availability
                  ELSE user.availability[1]
        slots == IF ~Truthy(start) \/ ~Truthy(end)
                 THEN <<>>
                 ELSE Append(avail0[day], [start |-> start[1], end |-> end[1]])
    IN  Store(us1, user_key,
              [user EXCEPT !.availability = Some([avail0 EXCEPT ![day] = slots])])

set_day_availability_in_state(us, user_id, day, start, end) ==
    LET user_key == StrOfInt(user_id)
        us1 == IF HasKey(us, user_key) THEN us
               ELSE Store(us, user_key,
                          [NewUser(user_key) EXCEPT
                              !.availability = Some(_empty_availability)])
        user == Lookup(us1, user_key)
        avail0 == IF user.availability = None
                  THEN _empty_availability
                  ELSE user.availability[1]
        avail1 == [d \in DaySet |->
                      IF d \in DOMAIN avail0 THEN avail0[d] ELSE <<>>]
        slots == IF ~Truthy(start) \/ ~Truthy(end)
                 THEN <<>>
                 ELSE <<[start |-> start[1], end |-> end[1]]>>
    IN  Store(us1, user_key,
              [user EXCEPT !.availability = Some([avail1 EXCEPT ![day] = slots])])

\* A variant that hands out what is stored, without normalising.
get_availability_from_state_stored(us, user_id) ==
    LET user_key == StrOfInt(user_id)
    IN  IF ~HasKey(us, user_key) THEN [d \in {} |-> <<>>]
        ELSE
          LET availability == Lookup(us, user_key).availability
          IN  IF availability = None THEN [d \in {} |-> <<>>]
              ELSE availability[1]

get_availability_from_state(us, user_id) ==
    LET user_key == StrOfInt(user_id)
    IN  IF ~HasKey(us, user_key) THEN _empty_availability
        ELSE
          LET availability == Lookup(us, user_key).availability
          IN  IF availability = None THEN _empty_availability
              ELSE [d \in DaySet |->
                      IF d \in DOMAIN availability[1]
                      THEN availability[1][d] ELSE <<>>]

----------------------------------------------------------------------------
(* Time. *)

MinutesPerDay == 1440

MinutesPerWeek == 10080

\* The zones ZoneInfo resolves in the model, none of which has daylight
\* saving time, with their offsets from UTC in minutes.
\* The positions <<day, i>> of the returned mapping whose interval record is
\* the very object the store holds: list(availability[day]) builds a new list
\* of the same records, and _empty_availability() builds new empty lists.
SharedRecords(us, user_id) ==
    LET user_key == StrOfInt(user_id)
    IN  IF ~HasKey(us, user_key) THEN {}
        ELSE
          LET availability == Lookup(us, user_key).availability
          IN  IF availability = None THEN {}
              ELSE UNION {{<<d, i>> : i \in 1 .. Len(availability[1][d])} :
                            d \in DaySet \cap DOMAIN availability[1]}

\* The store after record i of the user's list for `day` got a new end:
\* an assignment to a record reaches every holder of that record.
StoreAfterRecordWrite(us, user_id, day, i, end) ==
    LET user_key == StrOfInt(user_id)
        user == Lookup(us, user_key)
        availability == user.availability[1]
    IN  Store(us, user_key,
              [user EXCEPT !.availability =
                  Some([availability EXCEPT ![day][i].end = end])])

KnownZones == {"UTC", "Asia/Tokyo", "America/Bogota"}

UtcOffset(tz_name) ==
    CASE tz_name = "UTC" -> 0
      [] tz_name = "Asia/Tokyo" -> 540
      [] tz_name = "America/Bogota" -> -300

\* now_utc.astimezone(tz), as minutes since the local Monday 00:00.
AsTimezone(now_utc, tz_name) == (now_utc + UtcOffset(tz_name)) % MinutesPerWeek

\* local_now.weekday(): 0 is Monday.
Weekday(local_now) == local_now \div MinutesPerDay

\* local_now.strftime("%H:%M")
StrfTime(local_now) ==
    LET m == local_now % MinutesPerDay
        hh == m \div 60
        mm == m % 60
    IN  <<DigitChars[(hh \div 10) + 1], DigitChars[(hh % 10) + 1], ":",
          DigitChars[(mm \div 10) + 1], DigitChars[(mm % 10) + 1]>>

\* The code points of the characters the time strings are made of.
CodePoint(c) == IF c = ":" THEN 58 ELSE 48 + DigitValue(c)

\* a < b on Python strings: by code point, a proper prefix being smaller.
RECURSIVE StrLess(_, _)
StrLess(a, b) ==
    IF Len(b) = 0 THEN FALSE
    ELSE IF Len(a) = 0 THEN TRUE
    ELSE IF a[1] # b[1] THEN CodePoint(a[1]) < CodePoint(b[1])
    ELSE StrLess(Tail(a), Tail(b))

StrLeq(a, b) == a = b \/ StrLess(a, b)

\* The comparison with the end of the interval included.
SlotMatches_closed(slot, local_time_str) ==
    StrLeq(slot.start, local_time_str) /\ StrLeq(local_time_str, slot.end)

\* The comparison taking an interval that ends before it starts as one that
\* runs to midnight.
SlotMatches_to_midnight(slot, local_time_str) ==
    IF StrLess(slot.end, slot.start)
    THEN StrLeq(slot.start, local_time_str)
    ELSE StrLeq(slot.start, local_time_str) /\ StrLess(local_time_str, slot.end)

\* slot["start"] <= local_time_str < slot["end"]
SlotMatches(slot, local_time_str) ==
    StrLeq(slot.start, local_time_str) /\ StrLess(local_time_str, slot.end)

\* is_user_available_now taking UTC for a user without a timezone.
is_user_available_now_utc(us, user_id, now_utc) ==
    LET tz_name == get_timezone_from_state(us, user_id)
        zone == IF tz_name = None THEN "UTC" ELSE tz_name[1]
    IN  IF zone \notin KnownZones THEN FALSE
        ELSE
          LET local_now == AsTimezone(now_utc, zone)
              day_key == DAY_KEYS[Weekday(local_now) + 1]
              slots == get_availability_from_state(us, user_id)[day_key]
              local_time_str == StrfTime(local_now)
          IN  \E i \in 1 .. Len(slots) : SlotMatches(slots[i], local_time_str)

is_user_available_now(us, user_id, now_utc) ==
    LET tz_name == get_timezone_from_state(us, user_id)
    IN  IF tz_name = None THEN FALSE
        ELSE IF tz_name[1] \notin KnownZones THEN FALSE
        ELSE
          LET local_now == AsTimezone(now_utc, tz_name[1])
              day_key == DAY_KEYS[Weekday(local_now) + 1]
              slots == get_availability_from_state(us, user_id)[day_key]
              local_time_str == StrfTime(local_now)
          IN  \E i \in 1 .. Len(slots) : SlotMatches(slots[i], local_time_str)

----------------------------------------------------------------------------
(* Matching. *)

\* Where list.sort(key=...) puts x among the already sorted s: after every
\* element whose key is not greater (the sort is stable).
RECURSIVE InsertByKey(_, _)
InsertByKey(s, x) ==
    IF Len(s) = 0 THEN <<x>>
    ELSE IF x.id < s[1].id THEN <<x>> \o s
    ELSE <<s[1]>> \o InsertByKey(Tail(s), x)

\* The results left in the order of the dict.
SortById_unsorted(s) == s

\* results.sort(key=lambda x: x[0])
RECURSIVE SortById(_)
SortById(s) ==
    IF Len(s) = 0 THEN <<>>
    ELSE InsertByKey(SortById(SubSeq(s, 1, Len(s) - 1)), s[Len(s)])

\* The game_filter step keeping all common games of a candidate who has the
\* game asked for.
FilterCommon_all_or_none(common, game_filter) ==
    IF Truthy(game_filter)
    THEN LET norm_filter == normalize_game_name(game_filter[1])
         IN  IF \E i \in 1 .. Len(common) :
                    normalize_game_name(common[i]) = norm_filter
             THEN common
             ELSE <<>>
    ELSE common

\* The game_filter step of the loop body: with a truthy filter the common
\* games are narrowed to those of the filter's normalised name.
FilterCommon(common, game_filter) ==
    IF Truthy(game_filter)
    THEN LET norm_filter == normalize_game_name(game_filter[1])
             Wanted(g) == normalize_game_name(g) = norm_filter
         IN  SelectSeq(common, Wanted)
    ELSE common

\* The loop of find_ready_players over the first i entries of the dict: the
\* results list after them.
RECURSIVE ReadyLoop(_, _, _, _, _)
ReadyLoop(us, invoker_id, now_utc, game_filter, i) ==
    IF i = 0 THEN <<>>
    ELSE
      LET results == ReadyLoop(us, invoker_id, now_utc, game_filter, i - 1)
          other_id == IntOfStr(us[i].key)
          common == get_common_games(us, invoker_id, other_id)
          filtered == FilterCommon(common, game_filter)
      IN  IF other_id = invoker_id THEN results
          ELSE IF ~is_user_available_now(us, other_id, now_utc) THEN results
          ELSE IF Len(common) = 0 THEN results
          ELSE IF Len(filtered) = 0 THEN results
          ELSE Append(results, [id |-> other_id, games |-> filtered])

find_ready_players(us, invoker_id, now_utc, game_filter) ==
    SortById(ReadyLoop(us, invoker_id, now_utc, game_filter, Len(us)))

----------------------------------------------------------------------------
(* Persistence. *)

\* Where json.dump(sort_keys=True) puts an entry among the sorted ones: keys
\* are written in ascending str order.
RECURSIVE InsertByKeyStr(_, _)
InsertByKeyStr(s, x) ==
    IF Len(s) = 0 THEN <<x>>
    ELSE IF StrLess(x.key, s[1].key) THEN <<x>> \o s
    ELSE <<s[1]>> \o InsertByKeyStr(Tail(s), x)

\* The document save_state writes for the users dict us.
RECURSIVE save_state(_)
save_state(us) ==
    IF Len(us) = 0 THEN <<>>
    ELSE InsertByKeyStr(save_state(SubSeq(us, 1, Len(us) - 1)), us[Len(us)])

\* The users dict load_state returns: empty when there is no file (None),
\* else the users of the document, in the document's order.
load_state(f) == IF f = None THEN <<>> ELSE f[1]

\* The write the handlers of the timezone and availability commands make
\* after a mutation, as the game commands do.
WriteThrough(us) == Some(save_state(us))

\* The add-game handler suspending at send_message with the write still
\* to be made.
add_game_unsaved(us, f, user_id, game) ==
    [users |-> add_game_to_state(us, user_id, game), file |-> f]

\* The store and the state file when the add-game handler reaches its await.
add_game(us, f, user_id, game) ==
    LET us1 == add_game_to_state(us, user_id, game)
    IN  [users |-> us1, file |-> Some(save_state(us1))]

\* The store, the state file and `removed` when the remove-game handler
\* reaches its await.
remove_game(us, f, user_id, game) ==
    LET r == remove_game_from_state(us, user_id, game)
    IN  [users |-> r.users,
         file |-> IF r.ret THEN Some(save_state(r.users)) ELSE f,
         removed |-> r.ret]

----------------------------------------------------------------------------
(* The inputs requests are drawn from. *)

GameUsers == 1 .. MaxUid

\* The one user of the availability commands.
AvailUsers == {10}

\* The users of the matching commands; the key "10" sorts before "2".
MatchUsers == {1, 2, 10}

\* "GO", "g o", "CH": two games, the first in two spellings.
GameNames == {<<"G", "O">>, <<"g", " ", "o">>, <<"C", "H">>}

\* "" is stored but reads back as no timezone; "Mars/Phobos" does not resolve.
TzNames == {"", "UTC", "Asia/Tokyo", "America/Bogota", "Mars/Phobos"}

T0200 == <<"0", "2", ":", "0", "0">>

T1800 == <<"1", "8", ":", "0", "0">>

T2000 == <<"2", "0", ":", "0", "0">>

\* start and end of set_day_availability_in_state: None, "" or a time.
TimeArgs == {None, Some(<<>>), Some(T0200), Some(T1800), Some(T2000)}

DayArgs == {DAY_KEYS[i] : i \in 1 .. MaxDay}

\* game_filter of find_ready_players: None, "", "g o" or "Ch".
ProfileUsers == {1, 2}

ProfileGames == {<<"G", "O">>}

ProfileDays == {"mon"}

ProfileTimes == {None, Some(T1800), Some(T2000)}

HandlerUsers == {1, 2}

HandlerGames == {<<"G", "O">>, <<"g", " ", "o">>}

FilterArgs == {None, Some(<<>>), Some(<<"g", " ", "o">>), Some(<<"C", "h">>)}

Minute(day, hh, mm) == day * MinutesPerDay + hh * 60 + mm

\* Instants (UTC) at and around the ends of the intervals, in each zone:
\* Monday 09:00 and 11:00 are 18:00 and 20:00 in Tokyo, Monday 23:00 and
\* Tuesday 01:00 are Monday 18:00 and 20:00 in Bogota, Monday 00:30 is Sunday
\* in Bogota, Monday 17:00 is Tuesday 02:00 in Tokyo.
Instants ==
    {Minute(0, 0, 30), Minute(0, 2, 0), Minute(0, 9, 0), Minute(0, 11, 0),
     Minute(0, 17, 0), Minute(0, 17, 59), Minute(0, 18, 0), Minute(0, 19, 59),
     Minute(0, 20, 0), Minute(0, 23, 0), Minute(1, 0, 59), Minute(1, 1, 0),
     Minute(1, 2, 0), Minute(1, 18, 0)}

\* The instant of the matching commands: Monday 18:00 UTC.
MatchInstants == {Minute(0, 18, 0)}

----------------------------------------------------------------------------
(* The operations. *)

\* The bot starts without a state file.
Init ==
    /\ file = None
    /\ users = load_state(file)
    /\ last = [op |-> "load_state"]
    /\ tasks = <<>>

\* What an earlier run left in the state file: users 2, 10 and 1 set Monday
\* 18:00-20:00, in this order, and user 2 stored an empty timezone.
EarlierRun ==
    LET s1 == set_day_availability_in_state(<<>>, 2, "mon", Some(T1800), Some(T2000))
        s2 == set_day_availability_in_state(s1, 10, "mon", Some(T1800), Some(T2000))
        s3 == set_day_availability_in_state(s2, 1, "mon", Some(T1800), Some(T2000))
    IN  set_timezone_in_state(s3, 2, "")

\* The bot starts from the state file of the earlier run.
InitLoaded ==
    /\ file = Some(save_state(EarlierRun))
    /\ users = load_state(file)
    /\ last = [op |-> "load_state"]
    /\ tasks = <<>>

AddGameOf(uids, names) ==
    \E uid \in uids, name \in names :
        /\ users' = add_game_to_state(users, uid, name)
        /\ file' = Some(save_state(users'))
        /\ last' = [op |-> "add_game", uid |-> uid, name |-> name]
        /\ UNCHANGED tasks

AddGame(uids) == AddGameOf(uids, GameNames)

RemoveGameOf(uids, names) ==
    \E uid \in uids, name \in names :
        LET r == remove_game_from_state(users, uid, name)
        IN  /\ users' = r.users
            /\ file' = IF r.ret THEN Some(save_state(users')) ELSE file
            /\ last' = [op |-> "remove_game", uid |-> uid, name |-> name,
                        ret |-> r.ret]
            /\ UNCHANGED tasks

RemoveGame(uids) == RemoveGameOf(uids, GameNames)

ListGames(uids) ==
    \E uid \in uids :
        /\ last' = [op |-> "list_games", uid |-> uid,
                    ret |-> list_games_from_state(users, uid)]
        /\ UNCHANGED <<users, file, tasks>>

CommonGames(uids) ==
    \E uid \in uids, other \in uids :
        /\ last' = [op |-> "common_games", uid |-> uid, other |-> other,
                    ret |-> get_common_games(users, uid, other)]
        /\ UNCHANGED <<users, file, tasks>>

SetTimezone(uids, tzs) ==
    \E uid \in uids, tz \in tzs :
        /\ users' = set_timezone_in_state(users, uid, tz)
        /\ file' = WriteThrough(users')
        /\ last' = [op |-> "set_timezone", uid |-> uid, tz |-> tz]
        /\ UNCHANGED tasks

GetTimezone(uids) ==
    \E uid \in uids :
        /\ last' = [op |-> "get_timezone", uid |-> uid,
                    ret |-> get_timezone_from_state(users, uid)]
        /\ UNCHANGED <<users, file, tasks>>

SetAvailabilityOn(uids, days, times) ==
    \E uid \in uids, day \in days, start \in times, end \in times :
        /\ users' = set_day_availability_in_state(users, uid, day, start, end)
        /\ file' = WriteThrough(users')
        /\ last' = [op |-> "set_availability", uid |-> uid, day |-> day,
                    start |-> start, end |-> end]
        /\ UNCHANGED tasks

SetAvailability(uids) == SetAvailabilityOn(uids, DayArgs, TimeArgs)

\* The caller receives the mapping; `shared` names the interval records of
\* it that are the store's own objects.
GetAvailability(uids) ==
    \E uid \in uids :
        /\ last' = [op |-> "get_availability", uid |-> uid,
                    ret |-> get_availability_from_state(users, uid),
                    shared |-> SharedRecords(users, uid)]
        /\ UNCHANGED <<users, file, tasks>>

IsAvailableNow(uids, instants) ==
    \E uid \in uids, now \in instants :
        /\ last' = [op |-> "is_available_now", uid |-> uid, now |-> now,
                    ret |-> is_user_available_now(users, uid, now)]
        /\ UNCHANGED <<users, file, tasks>>

FindReadyPlayers(uids, instants) ==
    \E uid \in uids, now \in instants, filter \in FilterArgs :
        /\ last' = [op |-> "find_ready_players", uid |-> uid, now |-> now,
                    filter |-> filter,
                    ret |-> find_ready_players(users, uid, now, filter)]
        /\ UNCHANGED <<users, file, tasks>>

\* The caller of get_availability_from_state changes what it received: it
\* replaces a day's value in the mapping, empties a day's list, or assigns
\* the end of the first interval record of a day.
MutateReturned(days, times) ==
    /\ last.op \in {"get_availability", "mutate_returned"}
    /\ \E day \in days :
          \/ /\ last' = [op |-> "mutate_returned", uid |-> last.uid,
                          kind |-> "mapping", day |-> day,
                          ret |-> [last.ret EXCEPT ![day] = <<>>],
                          shared |-> {p \in last.shared : p[1] # day}]
             /\ UNCHANGED <<users, file, tasks>>
          \/ /\ last' = [op |-> "mutate_returned", uid |-> last.uid,
                          kind |-> "list", day |-> day,
                          ret |-> [last.ret EXCEPT ![day] = <<>>],
                          shared |-> {p \in last.shared : p[1] # day}]
             /\ UNCHANGED <<users, file, tasks>>
          \/ \E end \in times :
                /\ Len(last.ret[day]) >= 1
                /\ last' = [op |-> "mutate_returned", uid |-> last.uid,
                            kind |-> "record", day |-> day,
                            ret |-> [last.ret EXCEPT ![day][1].end = end],
                            shared |-> last.shared]
                /\ users' = IF <<day, 1>> \in last.shared
                            THEN StoreAfterRecordWrite(users, last.uid, day,
                                                       1, end)
                            ELSE users
                /\ UNCHANGED <<file, tasks>>

\* The client gives the event loop a handler for an add-game or a
\* remove-game command.
Dispatch(uids, names) ==
    /\ Len(tasks) < MaxTasks
    /\ \E op \in {"add_game", "remove_game"}, uid \in uids, name \in names :
          tasks' = Append(tasks, [op |-> op, uid |-> uid, name |-> name,
                                  pc |-> "start"])
    /\ UNCHANGED <<users, file, last>>

\* The event loop runs an add-game handler from its start to its await.
AddGameHandler ==
    \E t \in DOMAIN tasks :
        /\ tasks[t].op = "add_game"
        /\ tasks[t].pc = "start"
        /\ LET r == add_game(users, file, tasks[t].uid, tasks[t].name)
           IN  /\ users' = r.users
               /\ file' = r.file
        /\ last' = [op |-> "add_game", uid |-> tasks[t].uid,
                    name |-> tasks[t].name]
        /\ tasks' = [tasks EXCEPT ![t].pc = "send_message"]

\* The event loop runs a remove-game handler from its start to its await.
RemoveGameHandler ==
    \E t \in DOMAIN tasks :
        /\ tasks[t].op = "remove_game"
        /\ tasks[t].pc = "start"
        /\ LET r == remove_game(users, file, tasks[t].uid, tasks[t].name)
           IN  /\ users' = r.users
               /\ file' = r.file
               /\ last' = [op |-> "remove_game", uid |-> tasks[t].uid,
                           name |-> tasks[t].name, ret |-> r.removed]
        /\ tasks' = [tasks EXCEPT ![t].pc = "send_message"]

\* The response was sent: the handler resumes after its await and returns.
Responded ==
    \E t \in DOMAIN tasks :
        /\ tasks[t].pc = "send_message"
        /\ tasks' = [tasks EXCEPT ![t].pc = "done"]
        /\ UNCHANGED <<users, file, last>>

\* The game commands.
NextGames ==
    \/ AddGame(GameUsers)
    \/ RemoveGame(GameUsers)
    \/ CommonGames(GameUsers)

SpecGames == Init /\ [][NextGames]_vars

\* The timezone and availability commands of one user, and the evaluation.
NextAvail ==
    \/ SetTimezone(AvailUsers, TzNames)
    \/ SetAvailability(AvailUsers)
    \/ IsAvailableNow(AvailUsers, Instants)

SpecAvail == Init /\ [][NextAvail]_vars

\* Three users with Monday availability add games and set their timezone,
\* and search for ready players.
NextMatch ==
    \/ AddGame(MatchUsers)
    \/ SetTimezone(MatchUsers, {"UTC"})
    \/ IsAvailableNow(MatchUsers, MatchInstants)
    \/ FindReadyPlayers(MatchUsers, MatchInstants)

SpecMatch == InitLoaded /\ [][NextMatch]_vars

\* Two users use every command, on one game and one day.
NextProfile ==
    \/ AddGameOf(ProfileUsers, ProfileGames)
    \/ RemoveGameOf(ProfileUsers, ProfileGames)
    \/ ListGames(ProfileUsers)
    \/ SetTimezone(ProfileUsers, {"UTC"})
    \/ GetTimezone(ProfileUsers)
    \/ SetAvailabilityOn(ProfileUsers, ProfileDays, ProfileTimes)
    \/ GetAvailability(ProfileUsers)
    \/ IsAvailableNow(ProfileUsers, MatchInstants)
    \/ FindReadyPlayers(ProfileUsers, MatchInstants)

SpecProfile == Init /\ [][NextProfile]_vars

\* One user sets the availability, reads it and changes what was returned.
NextCopy ==
    \/ SetAvailability(AvailUsers)
    \/ GetAvailability(AvailUsers)
    \/ MutateReturned(DayArgs, {T0200})

SpecCopy == Init /\ [][NextCopy]_vars

\* Handlers of game commands, dispatched concurrently and run by the event
\* loop in any order, each without interruption between two awaits.
NextHandlers ==
    \/ Dispatch(HandlerUsers, HandlerGames)
    \/ AddGameHandler
    \/ RemoveGameHandler
    \/ Responded

SpecHandlers == Init /\ [][NextHandlers]_vars

----------------------------------------------------------------------------
(* What the properties below read from a store. *)

\* The games list stored for uid, empty for an unknown user.
GamesOf(us, uid) ==
    IF \E k \in 1 .. Len(us) : us[k].key = StrOfInt(uid)
    THEN us[CHOOSE k \in 1 .. Len(us) : us[k].key = StrOfInt(uid)].games
    ELSE <<>>

Range(s) == {s[i] : i \in 1 .. Len(s)}

\* The positions of games whose normalised form is that of name.
MatchesOf(games, name) ==
    {i \in 1 .. Len(games) :
        normalize_game_name(games[i]) = normalize_game_name(name)}

\* The entries of the other users are the same in us and us2.
OthersUnchanged(us, us2, uid) ==
    /\ \A k \in 1 .. Len(us) :
          us[k].key # StrOfInt(uid) => (k <= Len(us2) /\ us2[k] = us[k])
    /\ \A k \in 1 .. Len(us2) :
          us2[k].key # StrOfInt(uid) => (k <= Len(us) /\ us[k] = us2[k])

----------------------------------------------------------------------------
(* The game commands. *)

\* C1: no user's games list holds two entries with equal normalised forms.
NoDuplicateGames ==
    \A k \in 1 .. Len(users) :
        \A i, j \in 1 .. Len(users[k].games) :
            i < j => normalize_game_name(users[k].games[i])
                        # normalize_game_name(users[k].games[j])

\* "g o" was added to a list of two games and written at the first position,
\* where the same game stood.
DuplicateAddWitness ==
    /\ last.op = "add_game"
    /\ last.name = <<"g", " ", "o">>
    /\ Len(GamesOf(users, last.uid)) = 2
    /\ GamesOf(users, last.uid)[1] = last.name

\* C2: addGame overwrites the entry that normalises equal to the name, at
\* its position, leaving the length and the other entries as they were; with
\* no such entry it appends the name after the entries, which keep their order.
AddGameContract ==
    [][last'.op = "add_game" =>
        LET g == GamesOf(users, last'.uid)
            g2 == GamesOf(users', last'.uid)
            name == last'.name
        IN  IF MatchesOf(g, name) # {}
            THEN /\ Len(g2) = Len(g)
                 /\ \E i \in MatchesOf(g, name) :
                       /\ g2[i] = name
                       /\ \A j \in (1 .. Len(g)) \ {i} : g2[j] = g[j]
            ELSE /\ Len(g2) = Len(g) + 1
                 /\ g2[Len(g2)] = name
                 /\ \A j \in 1 .. Len(g) : g2[j] = g[j]]_vars

\* "GO" was added and stands first of two games: it replaced a spelling of
\* the same game that was followed by another game.
OverwriteInPlaceWitness ==
    /\ last.op = "add_game"
    /\ last.name = <<"G", "O">>
    /\ GamesOf(users, last.uid) = <<last.name, <<"C", "H">>>>

\* C3: removeGame deletes the first entry that normalises equal to the name
\* and returns true; for an unknown user or with no such entry it returns
\* false and leaves the store as it was; removing the same name again right
\* after a successful removal returns false.
RemoveGameContract ==
    [][last'.op = "remove_game" =>
        LET uid == last'.uid
            g == GamesOf(users, uid)
            g2 == GamesOf(users', uid)
            found == MatchesOf(g, last'.name)
        IN  /\ IF found = {}
               THEN last'.ret = FALSE /\ users' = users
               ELSE /\ last'.ret = TRUE
                    /\ Len(g2) = Len(g) - 1
                    /\ \E k \in found :
                          /\ \A j \in found : k <= j
                          /\ \A j \in 1 .. (k - 1) : g2[j] = g[j]
                          /\ \A j \in k .. Len(g2) : g2[j] = g[j + 1]
                    /\ OthersUnchanged(users, users', uid)
            /\ (/\ last.op = "remove_game"
                /\ last.ret = TRUE
                /\ last.uid = uid
                /\ last.name = last'.name) => last'.ret = FALSE]_vars

\* "g o" was removed from a list in which one game is left.
RemovedWitness ==
    /\ last.op = "remove_game"
    /\ last.ret = TRUE
    /\ last.name = <<"g", " ", "o">>
    /\ Len(GamesOf(users, last.uid)) = 1

\* C8: the common games of an invoker and a candidate are the invoker's
\* entries, in the invoker's order and spelling, whose normalised form is that
\* of some game of the candidate.
CommonGamesContract ==
    last.op = "common_games" =>
        LET a == GamesOf(users, last.uid)
            b == GamesOf(users, last.other)
            shared == {i \in 1 .. Len(a) :
                          \E j \in 1 .. Len(b) :
                              normalize_game_name(a[i]) = normalize_game_name(b[j])}
            ret == last.ret
        IN  /\ Len(ret) = Cardinality(shared)
            /\ \E at \in [1 .. Len(ret) -> shared] :
                  /\ \A p, q \in 1 .. Len(ret) : p < q => at[p] < at[q]
                  /\ \A p \in 1 .. Len(ret) : ret[p] = a[at[p]]

\* Two common games were reported, one of them spelled differently by the
\* candidate, who also lists them in the other order.
CommonGamesWitness ==
    /\ last.op = "common_games"
    /\ last.ret = <<<<"C", "H">>, <<"G", "O">>>>
    /\ GamesOf(users, last.other) = <<<<"g", " ", "o">>, <<"C", "H">>>>

----------------------------------------------------------------------------
(* Availability. *)

\* The record stored for uid.
RecordOf(us, uid) == us[CHOOSE k \in 1 .. Len(us) : us[k].key = StrOfInt(uid)]

Known(us, uid) == \E k \in 1 .. Len(us) : us[k].key = StrOfInt(uid)

\* The intervals stored for uid under day, none when nothing is stored.
SlotsOf(us, uid, day) ==
    IF Known(us, uid) /\ RecordOf(us, uid).availability # None
    THEN RecordOf(us, uid).availability[1][day]
    ELSE <<>>

\* uid has a stored timezone that resolves.
Resolvable(us, uid) ==
    /\ Known(us, uid)
    /\ RecordOf(us, uid).timezone # None
    /\ RecordOf(us, uid).timezone[1] \in KnownZones

\* The minute of the day an HH:MM string denotes.
MinuteOfDay(t) ==
    (DigitValue(t[1]) * 10 + DigitValue(t[2])) * 60
        + DigitValue(t[4]) * 10 + DigitValue(t[5])

\* The minute of the week in the zone of uid at the instant now.
LocalMinute(us, uid, now) ==
    (now + UtcOffset(RecordOf(us, uid).timezone[1])) % MinutesPerWeek

\* The weekday, 0 for Monday, the minute m of the week falls on.
DayOfMinute(m) ==
    CHOOSE d \in 0 .. 6 : d * MinutesPerDay <= m /\ m < (d + 1) * MinutesPerDay

\* The intervals stored for uid under the local weekday of the instant now.
SlotsToday(us, uid, now) ==
    SlotsOf(us, uid, DAY_KEYS[DayOfMinute(LocalMinute(us, uid, now)) + 1])

\* The local time of day of uid at the instant now, in minutes.
LocalTimeOfDay(us, uid, now) ==
    LocalMinute(us, uid, now)
        - DayOfMinute(LocalMinute(us, uid, now)) * MinutesPerDay

\* C5: with a resolvable timezone the user is available exactly when an
\* interval stored under the local weekday has start <= local time < end.
AvailableNowContract ==
    (last.op = "is_available_now" /\ Resolvable(users, last.uid)) =>
        LET slots == SlotsToday(users, last.uid, last.now)
            t == LocalTimeOfDay(users, last.uid, last.now)
        IN  last.ret =
              (\E i \in 1 .. Len(slots) :
                  /\ MinuteOfDay(slots[i].start) <= t
                  /\ t < MinuteOfDay(slots[i].end))

\* The local time is the end of Monday's interval 18:00-20:00 while the UTC
\* date is Tuesday, and the user is not available.
IntervalEndWitness ==
    /\ last.op = "is_available_now"
    /\ last.ret = FALSE
    /\ Resolvable(users, last.uid)
    /\ DayOfMinute(last.now) = 1
    /\ SlotsToday(users, last.uid, last.now) = <<[start |-> T1800, end |-> T2000]>>
    /\ LocalTimeOfDay(users, last.uid, last.now) = MinuteOfDay(T2000)

\* Every interval stored for uid ends before it starts, and there is one.
OnlyOvernight(us, uid) ==
    /\ \E d \in DaySet : Len(SlotsOf(us, uid, d)) > 0
    /\ \A d \in DaySet :
          \A i \in 1 .. Len(SlotsOf(us, uid, d)) :
              MinuteOfDay(SlotsOf(us, uid, d)[i].end)
                  < MinuteOfDay(SlotsOf(us, uid, d)[i].start)

----------------------------------------------------------------------------
(* Matching. *)

\* getTimezone gives none for uid: no record, no stored timezone or "".
NoTimezone(us, uid) ==
    \/ ~Known(us, uid)
    \/ RecordOf(us, uid).timezone = None
    \/ RecordOf(us, uid).timezone = Some("")

\* The identifiers of the users a search returned.
ReturnedIds(ret) == {ret[p].id : p \in 1 .. Len(ret)}

\* The invoker and uid have a game in common.
ShareGame(us, invoker, uid) ==
    \E i \in 1 .. Len(GamesOf(us, invoker)), j \in 1 .. Len(GamesOf(us, uid)) :
        normalize_game_name(GamesOf(us, invoker)[i])
            = normalize_game_name(GamesOf(us, uid)[j])

\* C4: a user without a timezone is never available and is never returned by
\* the ready-player search.
NoTimezoneNeverReady ==
    /\ last.op = "is_available_now" =>
          (NoTimezone(users, last.uid) => last.ret = FALSE)
    /\ last.op = "find_ready_players" =>
          \A uid \in ReturnedIds(last.ret) : ~NoTimezone(users, uid)

\* A search returned one user and left out another who shares a game with
\* the invoker and has an interval containing the instant, but no timezone.
NoTimezoneWitness ==
    /\ last.op = "find_ready_players"
    /\ Len(last.ret) = 1
    /\ \E uid \in MatchUsers \ ({last.uid} \cup ReturnedIds(last.ret)) :
          /\ RecordOf(users, uid).timezone = None
          /\ ShareGame(users, last.uid, uid)
          /\ SlotsOf(users, uid, "mon") = <<[start |-> T1800, end |-> T2000]>>
          /\ MinuteOfDay(T1800) <= last.now
          /\ last.now < MinuteOfDay(T2000)

\* C7: the result of the search is strictly ascending by user identifier,
\* does not hold the invoker, and every pair holds at least one game.
ReadyPlayersSorted ==
    last.op = "find_ready_players" =>
        /\ \A p, q \in 1 .. Len(last.ret) : p < q => last.ret[p].id < last.ret[q].id
        /\ last.uid \notin ReturnedIds(last.ret)
        /\ \A p \in 1 .. Len(last.ret) : Len(last.ret[p].games) > 0

\* User 1 searched and users 2 and 10 were returned, who stand in the dict
\* in the order 10, 2.
SortedWitness ==
    /\ last.op = "find_ready_players"
    /\ last.uid = 1
    /\ Len(last.ret) = 2
    /\ last.ret[1].id = 2
    /\ last.ret[2].id = 10
    /\ \E i, j \in 1 .. Len(users) :
          i < j /\ users[i].key = StrOfInt(10) /\ users[j].key = StrOfInt(2)

\* What C9 says of a search with the filter f: every returned game has the
\* normalised form of f, and a user who shares no game of that normalised
\* form with the invoker is not returned.
FilterRespected(f) ==
    /\ \A p \in 1 .. Len(last.ret) :
          \A i \in 1 .. Len(last.ret[p].games) :
              normalize_game_name(last.ret[p].games[i]) = normalize_game_name(f)
    /\ \A uid \in ReturnedIds(last.ret) :
          /\ MatchesOf(GamesOf(users, last.uid), f) # {}
          /\ MatchesOf(GamesOf(users, uid), f) # {}

----------------------------------------------------------------------------
(* C11: after any sequence of addGame, removeGame, setTimezone and
   setAvailability calls, getAvailability(uid), for a known or an unknown
   uid, returns a mapping whose keys are exactly mon..sun and whose value for
   a day is what the store holds for it; a day's stored list becomes
   non-empty only by a setAvailability call for that user and day, so every
   day never set is returned as the empty list. *)
WeekdayKeys == {"mon", "tue", "wed", "thu", "fri", "sat", "sun"}

AvailabilityAllDays ==
    [][/\ last'.op = "get_availability" =>
             /\ DOMAIN last'.ret = WeekdayKeys
             /\ \A d \in WeekdayKeys :
                    last'.ret[d] = SlotsOf(users', last'.uid, d)
       /\ \A uid \in ProfileUsers, d \in WeekdayKeys :
             (/\ SlotsOf(users', uid, d) # <<>>
              /\ SlotsOf(users', uid, d) # SlotsOf(users, uid, d))
             => /\ last'.op = "set_availability"
                /\ last'.uid = uid
                /\ last'.day = d]_vars

\* A user who set Monday only asks for the availability.
AllDaysWitness ==
    /\ last.op = "get_availability"
    /\ Known(users, last.uid)
    /\ last.ret["mon"] # <<>>
    /\ last.ret["sun"] = <<>>

----------------------------------------------------------------------------
(* C12: what getAvailability returns is a copy: changing it (the mapping, a
   day's list, or an interval record in a list) leaves the store as it was,
   so a later getAvailability gives the answer it gave before. *)
ReturnedIsACopy ==
    [][last'.op = "mutate_returned" =>
          /\ users' = users
          /\ get_availability_from_state(users', last'.uid)
               = get_availability_from_state(users, last'.uid)]_vars

----------------------------------------------------------------------------
(* C14: a user's record is created exactly by the first addGame, setTimezone
   or setAvailability call for that uid, and by no removeGame call and no
   query; a record that exists is in the store after every later step, and
   removing the user's last game leaves the record with an empty games
   list. *)
Creators == {"add_game", "set_timezone", "set_availability"}

RecordLifecycle ==
    [][\A uid \in ProfileUsers :
          /\ Known(users, uid) => Known(users', uid)
          /\ (~Known(users, uid) /\ Known(users', uid))
                => (last'.op \in Creators /\ last'.uid = uid)
          /\ (~Known(users, uid) /\ last'.op \in Creators /\ last'.uid = uid)
                => Known(users', uid)
          /\ (/\ last'.op = "remove_game"
              /\ last'.uid = uid
              /\ last'.ret
              /\ Len(GamesOf(users, uid)) = 1)
                => (Known(users', uid) /\ RecordOf(users', uid).games = <<>>)
      ]_vars

\* A user's only game was removed while the other user stays unknown.
LastGameRemovedWitness ==
    /\ last.op = "remove_game"
    /\ last.ret
    /\ Known(users, last.uid)
    /\ RecordOf(users, last.uid).games = <<>>
    /\ \E other \in ProfileUsers : ~Known(users, other)

----------------------------------------------------------------------------
(* C13: add-game, and remove-game when it removed something, write the whole
   store to the state file before the handler suspends; so however the
   event loop interleaves the dispatched handlers, whenever a handler is
   suspended at its await or has finished, the state file holds exactly the
   users of the store. *)
SnapshotEqualsStore ==
    (\E t \in DOMAIN tasks : tasks[t].pc \in {"send_message", "done"})
    => /\ Len(load_state(file)) = Len(users)
       /\ Range(load_state(file)) = Range(users)

\* Three handlers are suspended at their await: the remove-game handler,
\* dispatched first, ran last and removed a game, and the store holds two
\* users.
AllSuspendedWitness ==
    /\ Len(tasks) = 3
    /\ \A t \in DOMAIN tasks : tasks[t].pc = "send_message"
    /\ tasks[1].op = "remove_game"
    /\ last.op = "remove_game"
    /\ last.ret
    /\ Len(users) = 2

====
